---- MODULE Spec2Model ----
(***************************************************************************)
(* Model of LORA_API_SERVER.py: an OpenAI-compatible FastAPI server that   *)
(* loads a base model plus a LoRA adapter once at startup and serves chat  *)
(* completions from it.                                                    *)
(*                                                                         *)
(* Strings are modelled as sequences of symbols: every special marker of   *)
(* the Llama 3.1 template is one symbol, every word of message content is  *)
(* one symbol, and string concatenation is sequence concatenation.         *)
(* Temperatures are floats in the source; the model counts them in tenths  *)
(* (0.7 is 7).                                                             *)
(*                                                                         *)
(* The handlers are async functions without an await, and the load is a    *)
(* synchronous call inside the startup handler: the variable loop names    *)
(* the one coroutine the event loop is running, and a coroutine keeps the  *)
(* loop from its first statement to its return or raise.                   *)
(*                                                                         *)
(* The library calls that can fail are modelled as returning or raising:   *)
(* the three from_pretrained calls and the two .to("cpu") of the load, and *)
(* the tokenizer call, the device placement, generate and decode of a      *)
(* request. The prints, the dtype selection and the mkdir of the offload   *)
(* directory are taken to succeed, and the decoded text is not modelled.   *)
(***************************************************************************)
EXTENDS Integers, Sequences, FiniteSets, TLC

\* ---------------------------------------------------------------- bounds
\* number of completion requests a run may issue
NReq == 2
\* number of distinct values os.urandom(16) is drawn from
NIds == 2
\* longest message list given to the prompt formatter on its own
MaxMsgs == 2

\* ------------------------------------------------------ program constants
\* min(..., 200) in chat_completions
HardCap == 200
\* ChatCompletionRequest.max_tokens default
SchemaMaxTokens == 512
\* request.max_tokens or 512
FallbackMaxTokens == 512
\* ChatCompletionRequest.temperature default (0.7, in tenths)
SchemaTemperature == 7
\* request.temperature or 0.7 (in tenths)
FallbackTemperature == 7

\* Python's None, a request-body field that is left out, and numbers
None == [py |-> "None"]
Absent == [py |-> "absent"]
Num(n) == [num |-> n]

Reqs == 1..NReq
IdSpace == 1..NIds

\* --------------------------------------------------------- prompt symbols
BOT == "<|begin_of_text|>"
SH == "<|start_header_id|>"
EH == "<|end_header_id|>"
EOT == "<|eot_id|>"
NL == "\n"

Message(role, content) == [role |-> role, content |-> content]

\* a loop body without the assistant branch
RenderMessageNoAssistant(msg) ==
    IF msg.role = "system"
    THEN <<BOT, SH, "system", EH, NL, NL>> \o msg.content \o <<EOT, NL>>
    ELSE IF msg.role = "user"
    THEN <<SH, "user", EH, NL, NL>> \o msg.content \o <<EOT, NL>>
    ELSE <<>>

\* a loop body that opens every block with the begin-of-text marker
RenderMessageMarksEveryBlock(msg) ==
    IF msg.role \in {"system", "user", "assistant"}
    THEN <<BOT, SH, msg.role, EH, NL, NL>> \o msg.content \o <<EOT, NL>>
    ELSE <<>>

\* the text appended for one message by the loop body of
\* format_messages_for_llama; an unrecognised role appends nothing
RenderMessage(msg) ==
    IF msg.role = "system"
    THEN <<BOT, SH, "system", EH, NL, NL>> \o msg.content \o <<EOT, NL>>
    ELSE IF msg.role = "user"
    THEN <<SH, "user", EH, NL, NL>> \o msg.content \o <<EOT, NL>>
    ELSE IF msg.role = "assistant"
    THEN <<SH, "assistant", EH, NL, NL>> \o msg.content \o <<EOT, NL>>
    ELSE <<>>

\* the text appended after the loop
AssistantOpener == <<SH, "assistant", EH, NL, NL>>

\* the for loop of format_messages_for_llama from index i on
RECURSIVE FormatLoop(_, _, _)
FormatLoop(messages, i, formatted) ==
    IF i > Len(messages)
    THEN formatted
    ELSE FormatLoop(messages, i + 1, formatted \o RenderMessage(messages[i]))

format_messages_for_llama(messages) ==
    FormatLoop(messages, 1, <<>>) \o AssistantOpener

\* ------------------------------------------------- request schema, params
\* pydantic fills a field the body leaves out with the schema default;
\* an explicit null stays None
ParseMaxTokens(body_value) ==
    IF body_value = Absent THEN Num(SchemaMaxTokens) ELSE body_value

ParseTemperature(body_value) ==
    IF body_value = Absent THEN Num(SchemaTemperature) ELSE body_value

\* Python's "x or d": d when x is None or 0
OrElse(x, d) == IF x = None \/ x = Num(0) THEN Num(d) ELSE x

Min(a, b) == IF a <= b THEN a ELSE b

\* the budget without the min(..., 200)
MaxNewTokensUnclamped(max_tokens) == OrElse(max_tokens, FallbackMaxTokens).num

\* the budget without the "or 512"
MaxNewTokensNoFallback(max_tokens) ==
    IF max_tokens = None THEN HardCap ELSE Min(max_tokens.num, HardCap)

\* max_new_tokens=min(request.max_tokens or 512, 200)
MaxNewTokens(max_tokens) ==
    Min(OrElse(max_tokens, FallbackMaxTokens).num, HardCap)

\* a temperature kept within [0, 2.0]
GenTemperatureClamped(temperature) ==
    LET t == OrElse(temperature, FallbackTemperature).num
    IN  IF t < 0 THEN 0 ELSE Min(t, 20)

\* temperature=request.temperature or 0.7
GenTemperature(temperature) == OrElse(temperature, FallbackTemperature).num

\* ------------------------------------------------------------------ state
VARIABLES
    fs,            \* which of the three configured directories exist
    lifespan,      \* whether the ASGI host runs the app's startup handlers
    proc,          \* the process: running, or exited with a status
    loop,          \* the coroutine the single event loop is running
    startup_pc,    \* position of the startup() coroutine
    load_pc,       \* position inside load_model_with_lora()
    tokenizer,     \* the module global tokenizer
    model,         \* the module global model
    frame,         \* per request: the chat_completions call frame
    responses,     \* per request: the HTTP response it was answered with
    steps,         \* per request: the handler steps it has executed
    urandom,       \* per request: the value os.urandom(16) returned to it
    health,        \* the last body returned by GET /health
    fmt_messages,  \* argument of a direct format_messages_for_llama call
    fmt_result     \* its return value

store_vars == <<tokenizer, model>>
startup_vars == <<fs, proc, startup_pc, load_pc>>
request_vars == <<frame, responses, steps, urandom>>
fmt_vars == <<fmt_messages, fmt_result>>
vars == <<fs, lifespan, proc, loop, startup_pc, load_pc, tokenizer, model,
          frame, responses, steps, urandom, health, fmt_messages,
          fmt_result>>

\* ------------------------------------------------------------ event loop
NoTask == [task |-> "none"]
StartupTask == [task |-> "startup"]
RequestTask(r) == [task |-> "chat_completions", req |-> r]

Running == [state |-> "running", status |-> None]

\* a sys.exit that does not end the process
sys_exit_ignored(status) == Running

\* sys.exit(status)
sys_exit(status) == [state |-> "exited", status |-> Num(status)]

\* ---------------------------------------------------------------- startup
\* The host awaits the startup handlers before it serves any request; a
\* host that does not speak the lifespan protocol never runs them.
Serving ==
    /\ proc.state = "running"
    /\ lifespan => startup_pc = "returned"

\* the phase of the lifecycle a position of startup() belongs to
Lifecycle ==
    CASE startup_pc = "unloaded" -> "unloaded"
      [] startup_pc \in {"check_base", "check_lora", "mkdir"} -> "checking-paths"
      [] startup_pc \in {"load", "except"} -> "loading"
      [] startup_pc = "returned" ->
            IF load_pc = "returned" THEN "ready" ELSE "degraded"
      [] startup_pc = "exited" -> "failed"

\* after a sys.exit the coroutine is gone; without one it goes on
AfterExit(p, next) == IF p.state = "exited" THEN "exited" ELSE next

\* startup(), the prints before the path checks
StartupBegin ==
    /\ lifespan
    /\ proc.state = "running"
    /\ loop = NoTask
    /\ startup_pc = "unloaded"
    /\ loop' = StartupTask
    /\ startup_pc' = "check_base"
    /\ UNCHANGED <<fs, lifespan, proc, load_pc, store_vars, request_vars,
                   health, fmt_vars>>

\* a path check of startup(): at position at, on directory dir
CheckPath(at, dir, next) ==
    /\ loop = StartupTask
    /\ startup_pc = at
    /\ IF fs[dir]
       THEN /\ startup_pc' = next
            /\ UNCHANGED <<proc, loop>>
       ELSE /\ proc' = sys_exit(1)
            /\ startup_pc' = AfterExit(proc', next)
            /\ loop' = IF proc'.state = "exited" THEN NoTask ELSE loop
    /\ UNCHANGED <<fs, lifespan, load_pc, store_vars, request_vars,
                   health, fmt_vars>>

\* if not Path(BASE_MODEL_PATH).exists()
CheckBase == CheckPath("check_base", "base", "check_lora")

\* if not Path(LORA_ADAPTER_PATH).exists()
CheckLora == CheckPath("check_lora", "lora", "mkdir")

\* Path(OFFLOAD_FOLDER).mkdir(parents=True, exist_ok=True)
MakeOffload ==
    /\ loop = StartupTask
    /\ startup_pc = "mkdir"
    /\ fs' = [fs EXCEPT !.offload = TRUE]
    /\ startup_pc' = "load"
    /\ load_pc' = "tokenizer"
    /\ UNCHANGED <<lifespan, proc, loop, store_vars, request_vars,
                   health, fmt_vars>>

\* a failing load that resets the tokenizer it had assigned
LoadRaisesResetsTokenizer ==
    /\ load_pc' = "raised"
    /\ startup_pc' = "except"
    /\ tokenizer' = None
    /\ UNCHANGED model

\* a statement of load_model_with_lora raises: the call is left with the
\* globals as they are, and control is in startup()'s except clause
LoadRaises ==
    /\ load_pc' = "raised"
    /\ startup_pc' = "except"
    /\ UNCHANGED store_vars

InLoad(at) ==
    /\ loop = StartupTask
    /\ startup_pc = "load"
    /\ load_pc = at

LoadFrame == <<fs, lifespan, proc, loop, request_vars, health, fmt_vars>>

\* tokenizer = AutoTokenizer.from_pretrained(BASE_MODEL_PATH)
LoadTokenizer ==
    /\ InLoad("tokenizer")
    /\ \/ \E pad \in {"None", "<pad>"} :
            /\ tokenizer' = [kind |-> "tokenizer", pad_token |-> pad]
            /\ load_pc' = "pad_token"
            /\ UNCHANGED <<model, startup_pc>>
       \/ LoadRaises
    /\ UNCHANGED LoadFrame

\* if tokenizer.pad_token is None: tokenizer.pad_token = tokenizer.eos_token
SetPadToken ==
    /\ InLoad("pad_token")
    /\ tokenizer' = IF tokenizer.pad_token = "None"
                    THEN [tokenizer EXCEPT !.pad_token = "<eos>"]
                    ELSE tokenizer
    /\ load_pc' = "base_model"
    /\ UNCHANGED <<model, startup_pc>>
    /\ UNCHANGED LoadFrame

\* model = AutoModelForCausalLM.from_pretrained(BASE_MODEL_PATH, ...)
LoadBaseModel ==
    /\ InLoad("base_model")
    /\ \/ /\ model' = [kind |-> "base", device |-> "unset", eval |-> FALSE]
          /\ load_pc' = "to_cpu"
          /\ UNCHANGED <<tokenizer, startup_pc>>
       \/ LoadRaises
    /\ UNCHANGED LoadFrame

\* model = model.to("cpu"), at position at
ToCpu(at, next) ==
    /\ InLoad(at)
    /\ \/ /\ model' = [model EXCEPT !.device = "cpu"]
          /\ load_pc' = next
          /\ UNCHANGED <<tokenizer, startup_pc>>
       \/ LoadRaises
    /\ UNCHANGED LoadFrame

BaseToCpu == ToCpu("to_cpu", "adapter")

\* model = PeftModel.from_pretrained(model, LORA_ADAPTER_PATH)
LoadAdapter ==
    /\ InLoad("adapter")
    /\ \/ /\ model' = [model EXCEPT !.kind = "peft", !.device = "unset"]
          /\ load_pc' = "adapter_to_cpu"
          /\ UNCHANGED <<tokenizer, startup_pc>>
       \/ LoadRaises
    /\ UNCHANGED LoadFrame

AdapterToCpu == ToCpu("adapter_to_cpu", "eval")

\* model.eval(); return model; and startup() falls off its end
SetEvalAndReturn ==
    /\ InLoad("eval")
    /\ model' = [model EXCEPT !.eval = TRUE]
    /\ load_pc' = "returned"
    /\ startup_pc' = "returned"
    /\ loop' = NoTask
    /\ UNCHANGED <<tokenizer, fs, lifespan, proc, request_vars, health, fmt_vars>>

\* except Exception as e: ...; sys.exit(1)
StartupExcept ==
    /\ loop = StartupTask
    /\ startup_pc = "except"
    /\ proc' = sys_exit(1)
    /\ startup_pc' = AfterExit(proc', "returned")
    /\ loop' = NoTask
    /\ UNCHANGED <<fs, lifespan, load_pc, store_vars, request_vars,
                   health, fmt_vars>>

StartupStep ==
    \/ StartupBegin
    \/ CheckBase
    \/ CheckLora
    \/ MakeOffload
    \/ LoadTokenizer
    \/ SetPadToken
    \/ LoadBaseModel
    \/ BaseToCpu
    \/ LoadAdapter
    \/ AdapterToCpu
    \/ SetEvalAndReturn
    \/ StartupExcept

\* ------------------------------------------------- library collaborators
Exc(cls, text) == [cls |-> cls, text |-> text]

\* str(e)
Str(e) == e.text

\* what a call on a None global raises
NoneTypeError == Exc("TypeError", "'NoneType' object is not callable")

\* the faults the tokenizer, torch and the model can raise, by pipeline stage
Faults(stage) ==
    CASE stage = "tokenize" -> {Exc("ValueError", "tokenize failed")}
      [] stage = "device" -> {Exc("RuntimeError", "device placement failed")}
      [] stage = "generate" -> {Exc("RuntimeError", "generate failed")}
      [] stage = "decode" -> {Exc("ValueError", "decode failed")}

\* what "except ValueError" would catch
ExceptValueError == {"ValueError"}

\* the classes "except Exception" catches
ExceptException == {"ValueError", "RuntimeError", "TypeError", "IndexError"}

\* inputs["input_ids"].shape[1]: one token per symbol of the prompt after
\* the begin-of-sequence token the tokenizer puts in front
TokenCount(prompt) == Len(prompt) + 1

\* what model.generate can return for a prompt of n_prompt tokens: the
\* prompt followed by the new tokens, and whether it stopped at the
\* end-of-sequence token. A budget below one still yields one new token.
GenerateReturns(n_prompt, max_new_tokens) ==
    IF max_new_tokens <= 1
    THEN {[len |-> n_prompt + 1, eos |-> e] : e \in BOOLEAN}
    ELSE {[len |-> n_prompt + 1, eos |-> TRUE]}
         \cup {[len |-> n_prompt + max_new_tokens, eos |-> e] : e \in BOOLEAN}

\* ------------------------------------------------------ chat_completions
Keine == <<"Keine">>
Returned(v) == [raised |-> FALSE, value |-> v]
Raised(e) == [raised |-> TRUE, value |-> e]

\* Python's seq[i] for i = 0 (first) and i = -1 (last)
Subscript(seq, which) ==
    IF seq = <<>>
    THEN Raised(Exc("IndexError", "list index out of range"))
    ELSE Returned(IF which = "first" THEN seq[1] ELSE seq[Len(seq)])

\* request.messages[0].content[:100]
\*   if request.messages and request.messages[0].role == 'system' else 'Keine'
LogSystemMessage(messages) ==
    IF messages # <<>>
    THEN LET m == Subscript(messages, "first")
         IN  IF m.raised THEN m
             ELSE Returned(IF m.value.role = "system"
                           THEN m.value.content ELSE Keine)
    ELSE Returned(Keine)

\* request.messages[-1].content[:100] without the emptiness test
LogUserMessageUnguarded(messages) ==
    LET m == Subscript(messages, "last")
    IN  IF m.raised THEN m ELSE Returned(m.value.content)

\* request.messages[-1].content[:100] if request.messages else 'Keine'
LogUserMessage(messages) ==
    IF messages # <<>>
    THEN LET m == Subscript(messages, "last")
         IN  IF m.raised THEN m ELSE Returned(m.value.content)
    ELSE Returned(Keine)

\* a handler without the readiness check
GateMissing == FALSE

\* if model is None or tokenizer is None
NotLoaded == model = None \/ tokenizer = None

\* a usage block whose total counts the new tokens only
UsageTotalOfNewTokens(n_prompt, outputs_len) ==
    [prompt_tokens |-> n_prompt,
     completion_tokens |-> outputs_len - n_prompt,
     total_tokens |-> outputs_len - n_prompt]

\* the usage block of the response
Usage(n_prompt, outputs_len) ==
    [prompt_tokens |-> n_prompt,
     completion_tokens |-> outputs_len - n_prompt,
     total_tokens |-> outputs_len]

\* "finish_reason": "stop"
\* a finish reason that tells a cut-off generation from a finished one
FinishReasonByEos(eos) == IF eos THEN "stop" ELSE "length"

\* "finish_reason": "stop", whatever ended the generation
FinishReason(eos) == "stop"

ModelName == "chatmod-lora"

\* an envelope whose identifier does not use the random bytes
EnvelopeFixedId(id, n_prompt, outputs_len, eos) ==
    [id |-> <<"chatcmpl-", ModelName>>,
     object |-> "chat.completion",
     created |-> 1769270732,
     model |-> ModelName,
     finish_reason |-> "stop",
     usage |-> [prompt_tokens |-> n_prompt,
                completion_tokens |-> outputs_len - n_prompt,
                total_tokens |-> outputs_len]]

\* the dict chat_completions returns
Envelope(id, n_prompt, outputs_len, eos) ==
    [id |-> <<"chatcmpl-", id>>,
     object |-> "chat.completion",
     created |-> 1769270732,
     model |-> ModelName,
     finish_reason |-> FinishReason(eos),
     usage |-> Usage(n_prompt, outputs_len)]

\* the bodies clients send
MessagesInputs ==
    { <<>>,
      <<Message("user", <<"Hi">>)>>,
      <<Message("system", <<"You", "are", "helpful.">>),
        Message("user", <<"Hi">>)>> }
MaxTokensInputs == {Absent, None, Num(0), Num(0 - 1), Num(1), Num(HardCap + 1)}
TemperatureInputs == {Absent, None, Num(0), Num(0 - 5), Num(1000)}

Bodies ==
    [messages : MessagesInputs,
     max_tokens : MaxTokensInputs,
     temperature : TemperatureInputs]

\* ChatCompletionRequest(**body)
ParseRequest(body) ==
    [messages |-> body.messages,
     max_tokens |-> ParseMaxTokens(body.max_tokens),
     temperature |-> ParseTemperature(body.temperature)]

EmptyFrame(pc) ==
    [pc |-> pc, body |-> None, request |-> None, prompt |-> None,
     n_prompt |-> None,
     max_new_tokens |-> None, temperature |-> None, outputs_len |-> None,
     eos |-> None, exc |-> None]

NoResponse == [status |-> 0, via |-> "none", detail |-> None, body |-> None]

\* raise HTTPException(status_code=..., detail=...)
HTTPException(status_code, detail) ==
    [status |-> status_code, via |-> "HTTPException", detail |-> detail,
     body |-> None]

\* a return value, which the framework sends with status 200
Ok(body) == [status |-> 200, via |-> "return", detail |-> None, body |-> body]

\* an exception that leaves the handler, which the framework answers itself
Unhandled(e) ==
    [status |-> 500, via |-> "unhandled", detail |-> None, body |-> None]

At(r, pc) == loop = RequestTask(r) /\ frame[r].pc = pc

Did(r, step) == steps' = [steps EXCEPT ![r] = @ \cup {step}]

\* an event loop that takes up other work while a handler is in generate,
\* as it would if the call were awaited
LoopFreeDuringGenerate == loop = NoTask \/ \E r \in Reqs : At(r, "generate")

\* the event loop starts a handler only when it is running no coroutine:
\* chat_completions, health and list_models are async functions without an
\* await, so each keeps the loop until it returns or raises
LoopFree == loop = NoTask

\* a handler that drops the model when generation has failed
HandlerStoreDropsModel ==
    IF \E r \in Reqs : At(r, "except")
    THEN [tokenizer |-> tokenizer, model |-> None]
    ELSE [tokenizer |-> tokenizer, model |-> model]

\* chat_completions declares "global tokenizer, model" and assigns neither:
\* the values the two globals have after a statement of the handler
HandlerStore == [tokenizer |-> tokenizer, model |-> model]

HandlerFrame ==
    /\ tokenizer' = HandlerStore.tokenizer
    /\ model' = HandlerStore.model
    /\ UNCHANGED <<fs, lifespan, proc, startup_pc, load_pc, health, fmt_vars>>

\* a client sends POST /v1/chat/completions
Arrive(r) ==
    /\ Serving
    /\ frame[r].pc = "idle"
    /\ frame' = [frame EXCEPT ![r].pc = "pending"]
    /\ UNCHANGED <<loop, responses, steps>>
    /\ UNCHANGED urandom
    /\ HandlerFrame

\* the event loop starts the handler on the parsed body
Begin(r) ==
    /\ Serving
    /\ LoopFree
    /\ frame[r].pc = "pending"
    /\ \E body \in Bodies :
          frame' = [frame EXCEPT ![r].pc = "log",
                                 ![r].body = body,
                                 ![r].request = ParseRequest(body)]
    /\ loop' = RequestTask(r)
    /\ UNCHANGED <<responses, steps>>
    /\ UNCHANGED urandom
    /\ HandlerFrame

\* the three prints before the readiness check
LogRequest(r) ==
    /\ At(r, "log")
    /\ Did(r, "log")
    /\ LET sys_msg == LogSystemMessage(frame[r].request.messages)
           usr_msg == LogUserMessage(frame[r].request.messages)
       IN  IF sys_msg.raised \/ usr_msg.raised
           THEN /\ responses' = [responses EXCEPT ![r] =
                        Unhandled(IF sys_msg.raised THEN sys_msg.value
                                  ELSE usr_msg.value)]
                /\ frame' = [frame EXCEPT ![r].pc = "left"]
           ELSE /\ frame' = [frame EXCEPT ![r].pc = "gate"]
                /\ UNCHANGED responses
    /\ UNCHANGED loop
    /\ UNCHANGED urandom
    /\ HandlerFrame

\* if model is None or tokenizer is None: raise HTTPException(503, ...)
Gate(r) ==
    /\ At(r, "gate")
    /\ Did(r, "gate")
    /\ IF NotLoaded
       THEN /\ responses' = [responses EXCEPT ![r] =
                                HTTPException(503, "Modell nicht geladen")]
            /\ frame' = [frame EXCEPT ![r].pc = "left"]
       ELSE /\ frame' = [frame EXCEPT ![r].pc = "format"]
            /\ UNCHANGED responses
    /\ UNCHANGED loop
    /\ UNCHANGED urandom
    /\ HandlerFrame

\* a raise that leaves the request waiting, with no handler step to follow
ThrowAndHang(r, e) == frame' = [frame EXCEPT ![r].pc = "hung", ![r].exc = e]

\* a statement inside the try block raises e
Throw(r, e) == frame' = [frame EXCEPT ![r].pc = "except", ![r].exc = e]

\* prompt = format_messages_for_llama(request.messages)
Format(r) ==
    /\ At(r, "format")
    /\ Did(r, "format")
    /\ frame' = [frame EXCEPT
          ![r].pc = "tokenize",
          ![r].prompt = format_messages_for_llama(frame[r].request.messages)]
    /\ UNCHANGED <<loop, responses>>
    /\ UNCHANGED urandom
    /\ HandlerFrame

\* inputs = tokenizer(prompt, return_tensors="pt")
Tokenize(r) ==
    /\ At(r, "tokenize")
    /\ Did(r, "tokenize")
    /\ IF tokenizer = None
       THEN Throw(r, NoneTypeError)
       ELSE \/ frame' = [frame EXCEPT
                  ![r].pc = "device",
                  ![r].n_prompt = Num(TokenCount(frame[r].prompt))]
            \/ \E e \in Faults("tokenize") : Throw(r, e)
    /\ UNCHANGED <<loop, responses>>
    /\ UNCHANGED urandom
    /\ HandlerFrame

\* device = next(model.parameters()).device, or cpu if that raises;
\* inputs = {k: v.to(device) ...}
PlaceOnDevice(r) ==
    /\ At(r, "device")
    /\ Did(r, "device")
    /\ \/ frame' = [frame EXCEPT ![r].pc = "generate"]
       \/ \E e \in Faults("device") : Throw(r, e)
    /\ UNCHANGED <<loop, responses>>
    /\ UNCHANGED urandom
    /\ HandlerFrame

\* outputs = model.generate(**inputs, max_new_tokens=..., temperature=...)
Generate(r) ==
    /\ At(r, "generate")
    /\ Did(r, "generate")
    /\ LET budget == MaxNewTokens(frame[r].request.max_tokens)
           temp == GenTemperature(frame[r].request.temperature)
           called == [frame EXCEPT ![r].max_new_tokens = Num(budget),
                                   ![r].temperature = Num(temp)]
       IN  IF model = None
           THEN frame' = [called EXCEPT ![r].pc = "except",
                                        ![r].exc = NoneTypeError]
           ELSE \/ \E out \in GenerateReturns(frame[r].n_prompt.num, budget) :
                      frame' = [called EXCEPT
                                  ![r].pc = "decode",
                                  ![r].outputs_len = Num(out.len),
                                  ![r].eos = out.eos]
                \/ \E e \in Faults("generate") :
                      frame' = [called EXCEPT ![r].pc = "except",
                                              ![r].exc = e]
    /\ UNCHANGED <<loop, responses>>
    /\ UNCHANGED urandom
    /\ HandlerFrame

\* generated_text = tokenizer.decode(outputs[0][n_prompt:], ...)
Decode(r) ==
    /\ At(r, "decode")
    /\ Did(r, "decode")
    /\ \/ frame' = [frame EXCEPT ![r].pc = "return"]
       \/ \E e \in Faults("decode") : Throw(r, e)
    /\ UNCHANGED <<loop, responses>>
    /\ UNCHANGED urandom
    /\ HandlerFrame

\* return {"id": "chatcmpl-" + os.urandom(16).hex(), ...}
Return(r) ==
    /\ At(r, "return")
    /\ Did(r, "return")
    /\ \E id \in IdSpace :
          /\ urandom' = [urandom EXCEPT ![r] = id]
          /\ responses' = [responses EXCEPT ![r] =
                Ok(Envelope(id, frame[r].n_prompt.num,
                            frame[r].outputs_len.num, frame[r].eos))]
    /\ frame' = [frame EXCEPT ![r].pc = "left"]
    /\ UNCHANGED loop
    /\ HandlerFrame

\* except Exception as e: ...; raise HTTPException(500, detail=str(e))
Except(r) ==
    /\ At(r, "except")
    /\ Did(r, "except")
    /\ responses' = [responses EXCEPT ![r] =
          IF frame[r].exc.cls \in ExceptException
          THEN HTTPException(500, Str(frame[r].exc))
          ELSE Unhandled(frame[r].exc)]
    /\ frame' = [frame EXCEPT ![r].pc = "left"]
    /\ UNCHANGED loop
    /\ UNCHANGED urandom
    /\ HandlerFrame

\* what is remembered of a response once it has been sent: its status,
\* its detail and, of a completion, the identifier and the finish reason
Sent(resp) ==
    IF resp.body = None THEN resp
    ELSE [resp EXCEPT !.body = [id |-> resp.body.id,
                                finish_reason |-> resp.body.finish_reason]]

\* the handler has returned or raised: its frame is gone, the framework
\* sends the response and the event loop is free again
Send(r) ==
    /\ At(r, "left")
    /\ frame' = [frame EXCEPT ![r] = EmptyFrame("done")]
    /\ responses' = [responses EXCEPT ![r] = Sent(@)]
    /\ loop' = NoTask
    /\ UNCHANGED steps
    /\ UNCHANGED urandom
    /\ HandlerFrame

HandlerStep(r) ==
    \/ Begin(r)
    \/ LogRequest(r)
    \/ Gate(r)
    \/ Format(r)
    \/ Tokenize(r)
    \/ PlaceOnDevice(r)
    \/ Generate(r)
    \/ Decode(r)
    \/ Return(r)
    \/ Except(r)
    \/ Send(r)

\* ---------------------------------------------------------------- /health
\* "model_loaded": model is not None
ModelLoaded == model # None

Health ==
    /\ Serving
    /\ LoopFree
    /\ health' = [status |-> "ok", model_loaded |-> ModelLoaded]
    /\ UNCHANGED <<fs, lifespan, proc, loop, startup_pc, load_pc, store_vars,
                   request_vars, fmt_vars>>

\* ------------------------------------------------------------- /v1/models
\* the dict list_models returns
ModelsBody ==
    [object |-> "list",
     data |-> <<[id |-> ModelName, object |-> "model",
                 created |-> 1769270732, owned_by |-> "owner"]>>]

\* list_models reads and writes no state of the process
ListModels ==
    /\ Serving
    /\ LoopFree
    /\ UNCHANGED vars

\* ----------------------------------------- the prompt formatter on its own
FmtRoles == {"system", "user", "assistant", "tool"}
FmtContents == {<<"Hi">>, <<BOT>>}
FmtMessages == {Message(role, content) : role \in FmtRoles, content \in FmtContents}
MessageLists == UNION {[1..n -> FmtMessages] : n \in 0..MaxMsgs}

\* a call format_messages_for_llama(fmt_messages)
FormatCall ==
    /\ fmt_result = None
    /\ fmt_result' = format_messages_for_llama(fmt_messages)
    /\ UNCHANGED <<fs, lifespan, proc, loop, startup_pc, load_pc, store_vars,
                   request_vars, health, fmt_messages>>

\* ------------------------------------------------------------------- spec
ServerInit ==
    /\ fs \in [base : BOOLEAN, lora : BOOLEAN, offload : BOOLEAN]
    /\ lifespan \in BOOLEAN
    /\ proc = Running
    /\ loop = NoTask
    /\ startup_pc = "unloaded"
    /\ load_pc = "not_called"
    /\ tokenizer = None
    /\ model = None
    /\ frame = [r \in Reqs |-> EmptyFrame("idle")]
    /\ responses = [r \in Reqs |-> NoResponse]
    /\ steps = [r \in Reqs |-> {}]
    /\ urandom = [r \in Reqs |-> 0]
    /\ health = None

Init ==
    /\ ServerInit
    /\ fmt_messages = <<>>
    /\ fmt_result = None

InitFmt ==
    /\ ServerInit
    /\ fs = [base |-> TRUE, lora |-> TRUE, offload |-> TRUE]
    /\ lifespan
    /\ fmt_messages \in MessageLists
    /\ fmt_result = None

NextFmt == FormatCall

SpecFmt == InitFmt /\ [][NextFmt]_vars

Next ==
    \/ StartupStep
    \/ \E r \in Reqs : Arrive(r)
    \/ \E r \in Reqs : HandlerStep(r)
    \/ Health
    \/ ListModels

Spec == Init /\ [][Next]_vars

\* ================================================================= claims
Active(r) == frame[r].pc \notin {"idle", "pending", "done"}
Answered(r) == responses[r].status # 0
StoreAbsent == model = None \/ tokenizer = None
PipelineSteps == {"format", "tokenize", "device", "generate", "decode", "return"}

\* the load has completed successfully: tokenizer loaded, base model
\* loaded, adapter applied, inference mode set, load_model_with_lora returned
LoadCompleted ==
    /\ load_pc = "returned"
    /\ tokenizer # None
    /\ model # None
    /\ model.kind = "peft"
    /\ model.eval

\* C1: a completion request whose readiness check runs while the model or
\* the tokenizer global is None is answered with 503, and it executes no
\* formatting, tokenization, device, generation or decoding step.
C1_NotLoaded503 ==
    \A r \in Reqs :
        ("gate" \in steps[r] /\ StoreAbsent) =>
            /\ responses[r].status = 503
            /\ responses[r].via = "HTTPException"
            /\ steps[r] \cap PipelineSteps = {}
            /\ "except" \notin steps[r]

C1_Witness ==
    \E r \in Reqs :
        /\ "gate" \in steps[r]
        /\ model = None
        /\ responses[r].status = 503

\* C2: every /health body reports model_loaded exactly when
\* load_model_with_lora has returned, and after a body with
\* model_loaded true no later body has model_loaded false.
C2_HealthTracksLoad ==
    /\ [](health # None => (health.model_loaded <=> load_pc = "returned"))
    /\ [][(health # None /\ health.model_loaded) => health'.model_loaded]_vars

C2_Witness ==
    /\ health # None
    /\ health.model_loaded
    /\ load_pc = "returned"

\* C3: a request executes a tokenization or generation step only when the
\* load has completed successfully, and no request is handled at all once
\* a statement of the load has raised.
C3_ServedOnlyWhenLoaded ==
    /\ \A r \in Reqs :
          steps[r] \cap {"tokenize", "generate"} # {} => LoadCompleted
    /\ load_pc = "raised" => \A r \in Reqs : steps[r] = {}

C3_Witness ==
    \E r \in Reqs : "generate" \in steps[r] /\ LoadCompleted

\* C4: the max_new_tokens a request passes to generate is at most 200,
\* also when the body has no max_tokens and the default 512 applies.
C4_BudgetCapped ==
    \A r \in Reqs :
        frame[r].max_new_tokens # None =>
            frame[r].max_new_tokens.num <= HardCap

C4_Witness ==
    \E r \in Reqs :
        /\ Active(r)
        /\ frame[r].request.max_tokens = Num(SchemaMaxTokens)
        /\ frame[r].max_new_tokens = Num(HardCap)

C6_HandlerKeepsStore ==
    /\ [][(loop.task = "chat_completions" \/ loop'.task = "chat_completions")
            => UNCHANGED <<tokenizer, model, load_pc, startup_pc, proc>>]_vars
    /\ [][(tokenizer' # tokenizer \/ model' # model)
            => (loop = StartupTask /\ startup_pc = "load")]_vars
    /\ [](\A r \in Reqs :
            responses[r].status \in {200, 500} =>
                LoadCompleted /\ ~StoreAbsent /\ Lifecycle = "ready")

\* a request answered 500, and after it another one returning 200
C6_Witness ==
    \E r1, r2 \in Reqs :
        /\ frame[r1].pc = "done"
        /\ responses[r1].status = 500
        /\ frame[r2].pc = "left"
        /\ responses[r2].status = 200
        /\ LoadCompleted

LifecycleEdges ==
    { <<"unloaded", "checking-paths">>,
      <<"checking-paths", "loading">>,
      <<"checking-paths", "failed">>,
      <<"loading", "ready">>,
      <<"loading", "failed">> }

\* C7: startup moves only along unloaded -> checking-paths -> loading ->
\* ready or failed; with the base-model or adapter path missing it fails at
\* that check, the offload directory is not created and nothing is loaded;
\* a load that raised ends in failed; failed is the process exited with a
\* non-zero status, after which nothing runs; and until it is ready or
\* failed a started startup always has a next step.
C7_StartupLifecycle ==
    /\ [][Lifecycle' # Lifecycle => <<Lifecycle, Lifecycle'>> \in LifecycleEdges]_vars
    /\ [][fs' # fs => (fs.base /\ fs.lora)]_vars
    /\ [](/\ ~fs.base => startup_pc \in {"unloaded", "check_base", "exited"}
          /\ ~fs.lora => startup_pc \in {"unloaded", "check_base", "check_lora", "exited"}
          /\ (~fs.base \/ ~fs.lora) =>
                load_pc = "not_called" /\ tokenizer = None /\ model = None
          /\ load_pc = "raised" => startup_pc \in {"except", "exited"}
          /\ Lifecycle = "ready" => LoadCompleted
          /\ Lifecycle = "failed" <=> proc.state = "exited"
          /\ proc.state = "exited" =>
                proc.status # None /\ proc.status # Num(0) /\ ~ENABLED Next
          /\ Lifecycle \in {"checking-paths", "loading"} => ENABLED StartupStep)

\* failed at the adapter path check, the offload directory still absent
C7_Witness ==
    /\ Lifecycle = "failed"
    /\ fs.base
    /\ ~fs.lora
    /\ ~fs.offload
    /\ load_pc = "not_called"

\* C8: in the envelope a handler returns, prompt_tokens is the token count
\* of the prompt taken before generation, completion_tokens is the length
\* of the output sequence minus prompt_tokens, and total_tokens is the sum
\* of the two.
C8_UsageArithmetic ==
    \A r \in Reqs :
        (frame[r].pc = "left" /\ responses[r].status = 200) =>
            LET usage == responses[r].body.usage
            IN  /\ usage.prompt_tokens = frame[r].n_prompt.num
                /\ usage.prompt_tokens = Len(frame[r].prompt) + 1
                /\ usage.completion_tokens =
                      frame[r].outputs_len.num - usage.prompt_tokens
                /\ usage.total_tokens =
                      usage.prompt_tokens + usage.completion_tokens

C8_Witness ==
    \E r \in Reqs :
        /\ frame[r].pc = "left"
        /\ responses[r].status = 200
        /\ responses[r].body.usage.completion_tokens = HardCap
        /\ responses[r].body.usage.prompt_tokens > 1

Recognized == {"system", "user", "assistant"}

\* the block the Llama 3.1 template has for one message
Block(msg) ==
    (IF msg.role = "system" THEN <<BOT>> ELSE <<>>)
        \o <<SH, msg.role, EH, NL, NL>> \o msg.content \o <<EOT, NL>>

\* one block for each message with a recognised role, in input order
RECURSIVE Blocks(_)
Blocks(messages) ==
    IF messages = <<>> THEN <<>>
    ELSE (IF Head(messages).role \in Recognized
          THEN Block(Head(messages)) ELSE <<>>) \o Blocks(Tail(messages))

EndsWith(text, suffix) ==
    /\ Len(text) >= Len(suffix)
    /\ SubSeq(text, Len(text) - Len(suffix) + 1, Len(text)) = suffix

\* C9: for a non-empty message list the prompt ends with the assistant
\* opener, and before the opener it is exactly one block for each message
\* whose role is system, user or assistant, in input order, with nothing
\* for a message of another role.
C9_PromptBlocks ==
    (fmt_result # None /\ fmt_messages # <<>>) =>
        /\ EndsWith(fmt_result, <<SH, "assistant", EH, NL, NL>>)
        /\ fmt_result = Blocks(fmt_messages) \o <<SH, "assistant", EH, NL, NL>>

\* an unrecognised role between two recognised ones
C9_Witness ==
    /\ fmt_result # None
    /\ Len(fmt_messages) = 2
    /\ fmt_messages[1].role = "tool"
    /\ fmt_messages[2].role = "assistant"

\* C10: a request with an empty message list handled while the store is
\* loaded never leaves the handler with an unhandled exception, raises
\* nothing but a fault of the tokenizer or the model, has the assistant
\* opener alone as its prompt, and when no statement of the try block
\* raised it has run generation and returns 200 with finish_reason "stop".
C10_EmptyMessages ==
    \A r \in Reqs :
        (Active(r) /\ frame[r].request.messages = <<>> /\ ~StoreAbsent) =>
            /\ responses[r].via # "unhandled"
            /\ responses[r].status # 503
            /\ "format" \in steps[r] =>
                  frame[r].prompt = <<SH, "assistant", EH, NL, NL>>
            /\ frame[r].exc # None =>
                  frame[r].exc \in UNION {Faults(stage) :
                      stage \in {"tokenize", "device", "generate", "decode"}}
            /\ (frame[r].pc = "left" /\ frame[r].exc = None) =>
                  /\ "generate" \in steps[r]
                  /\ responses[r].status = 200
                  /\ responses[r].body.finish_reason = "stop"

C10_Witness ==
    \E r \in Reqs :
        /\ frame[r].pc = "left"
        /\ frame[r].request.messages = <<>>
        /\ responses[r].status = 200
        /\ responses[r].body.finish_reason = "stop"

\* two requests that were both answered with a completion
BothSucceeded(r1, r2) ==
    /\ r1 # r2
    /\ responses[r1].status = 200
    /\ responses[r2].status = 200

\* C11 as stated: two successful responses to distinct requests never carry
\* the same identifier.
C11_IdsNeverShared ==
    \A r1, r2 \in Reqs :
        BothSucceeded(r1, r2) => responses[r1].body.id # responses[r2].body.id

\* C11 as amended: the identifier of a successful response is "chatcmpl-"
\* followed by the bytes os.urandom returned for that request, so two
\* successful responses to distinct requests carry the same identifier
\* exactly when os.urandom returned the same bytes for both.
C11_IdsFollowUrandom ==
    \A r1, r2 \in Reqs :
        /\ responses[r1].status = 200 =>
              /\ urandom[r1] \in IdSpace
              /\ responses[r1].body.id[1] = "chatcmpl-"
        /\ BothSucceeded(r1, r2) =>
              (responses[r1].body.id = responses[r2].body.id
                  <=> urandom[r1] = urandom[r2])

\* two sent completions whose random bytes differ
C11_Witness ==
    \E r1, r2 \in Reqs :
        /\ BothSucceeded(r1, r2)
        /\ frame[r1].pc = "done"
        /\ frame[r2].pc = "done"
        /\ urandom[r1] # urandom[r2]

\* a request whose arguments to generate have been evaluated
Budgeted(r) == Active(r) /\ "generate" \in steps[r]

\* C12 as stated: for every integer max_tokens of the parsed request (512
\* when the body has none) the budget is min(max_tokens, 200).
C12_BudgetIsMin ==
    \A r \in Reqs :
        (Budgeted(r) /\ frame[r].request.max_tokens # None) =>
            frame[r].max_new_tokens.num =
                (IF frame[r].request.max_tokens.num <= 200
                 THEN frame[r].request.max_tokens.num ELSE 200)

\* C12 as amended: the budget is min(max_tokens, 200) for every integer
\* max_tokens other than 0, with 512 for a body without max_tokens; for
\* max_tokens 0, as for null, the fallback 512 applies first and the budget
\* is 200.
C12_BudgetIsMinUnlessFalsy ==
    \A r \in Reqs :
        Budgeted(r) =>
            LET sent == frame[r].body.max_tokens
                asked == IF sent = Absent THEN 512 ELSE
                         IF sent = None \/ sent = Num(0) THEN 0 ELSE sent.num
            IN  frame[r].max_new_tokens.num =
                    (IF asked = 0 THEN 200
                     ELSE IF asked <= 200 THEN asked ELSE 200)

\* a negative max_tokens passed through as the budget
C12_Witness ==
    \E r \in Reqs :
        /\ Budgeted(r)
        /\ frame[r].body.max_tokens = Num(0 - 1)
        /\ frame[r].max_new_tokens = Num(0 - 1)

InGenerate(r) == frame[r].pc = "generate"
TwoInGenerate == \E r1, r2 \in Reqs : r1 # r2 /\ InGenerate(r1) /\ InGenerate(r2)

\* C13 as stated: nothing serializes requests in flight, so a request that
\* waits while another is inside its generation step can enter its handler
\* at once, and the two come to be in generation together.
C13_NothingSerializes ==
    \A r1, r2 \in Reqs :
        (r1 # r2 /\ InGenerate(r1) /\ frame[r2].pc = "pending")
            => ENABLED Begin(r2)

\* C13 as amended: the code has no lock or queue, but in no state are two
\* requests inside their generation step at once; while one request is in
\* its handler every other request in flight has not started.
C13_GenerationSerialized ==
    /\ ~TwoInGenerate
    /\ \A r1, r2 \in Reqs :
          (r1 # r2 /\ InGenerate(r1)) => frame[r2].pc \in {"idle", "pending", "done"}

\* one request in generate while another is in flight behind it
C13_Witness ==
    \E r1, r2 \in Reqs :
        /\ r1 # r2
        /\ InGenerate(r1)
        /\ frame[r2].pc = "pending"

\* C14: the handler has no suspension point, so at most one request is
\* between the start of its handler and its response, it holds the event
\* loop, and while it does no step of another request's handler, of
\* health, of list_models or of the load can be taken.
C14_NoInterleaving ==
    \A r \in Reqs :
        Active(r) =>
            /\ loop = RequestTask(r)
            /\ \A q \in Reqs \ {r} : ~Active(q) /\ ~ENABLED HandlerStep(q)
            /\ ~ENABLED Health
            /\ ~ENABLED ListModels
            /\ ~ENABLED StartupStep

\* a request inside generation after a completed load, with another
\* request waiting and an earlier health answer on record
C14_Witness ==
    \E r, q \in Reqs :
        /\ r # q
        /\ InGenerate(r)
        /\ "gate" \in steps[r]
        /\ frame[q].pc = "pending"
        /\ LoadCompleted
        /\ health # None

\* the causes an error response can carry: the gate's message, or the text
\* of the exception a call of the try block raised
Causes ==
    {"Modell nicht geladen", Str(NoneTypeError)}
        \cup {Str(e) : e \in UNION {Faults(stage) : stage \in
                                      {"tokenize", "device", "generate", "decode"}}}

C16_FinishReasonStop ==
    \A r \in Reqs :
        responses[r].status = 200 => responses[r].body.finish_reason = "stop"

\* a 200 whose generation used the whole budget of 200 and met no
\* end-of-sequence token
C16_Witness ==
    \E r \in Reqs :
        /\ frame[r].pc = "left"
        /\ responses[r].status = 200
        /\ frame[r].eos = FALSE
        /\ frame[r].max_new_tokens = Num(200)
        /\ responses[r].body.usage.completion_tokens = 200
        /\ responses[r].body.finish_reason = "stop"

\* C17: the temperature passed to generate is the request's temperature
\* unchanged, whatever its size or sign, and 0.7 (7 tenths) when the body
\* has none or has null or 0.
C17_TemperaturePassedThrough ==
    \A r \in Reqs :
        Budgeted(r) =>
            LET t == frame[r].body.temperature
            IN  frame[r].temperature =
                    IF t \in {Absent, None, Num(0)} THEN Num(7) ELSE t

\* generate called with a temperature of 100.0
C17_Witness ==
    \E r \in Reqs :
        /\ Budgeted(r)
        /\ frame[r].body.temperature = Num(1000)
        /\ frame[r].temperature = Num(1000)

\* C18: in every state, mid-load and after a failed load step included, a
\* present model comes with a present tokenizer; so what /health reported
\* as model_loaded is true exactly when the gate lets a request through,
\* and a request that met the gate was refused exactly when the model was
\* absent.
C18_ModelImpliesTokenizer ==
    /\ model # None => tokenizer # None
    /\ health # None =>
          (health.model_loaded <=> (model # None /\ tokenizer # None))
    /\ \A r \in Reqs :
          "gate" \in steps[r] => (responses[r].status = 503 <=> model = None)

\* the load failed at a step after the base model was assigned
C18_Witness ==
    /\ load_pc = "raised"
    /\ model # None
    /\ tokenizer # None

Count(x, text) == Cardinality({i \in 1..Len(text) : text[i] = x})

SystemCount(messages) ==
    Cardinality({i \in 1..Len(messages) : messages[i].role = "system"})

\* the markers that the contents of the rendered messages hold themselves
RECURSIVE ContentMarkers(_)
ContentMarkers(messages) ==
    IF messages = <<>> THEN 0
    ELSE (IF Head(messages).role \in Recognized
          THEN Count(BOT, Head(messages).content) ELSE 0)
         + ContentMarkers(Tail(messages))

FirstRecognizedIsSystem(messages) ==
    \E i \in 1..Len(messages) :
        /\ messages[i].role = "system"
        /\ \A j \in 1..(i - 1) : messages[j].role \notin Recognized

\* the marker at position i stands immediately before a system header
BeforeSystemHeader(text, i) ==
    /\ i + 3 <= Len(text)
    /\ SubSeq(text, i + 1, i + 3) = <<SH, "system", EH>>

\* C19 as stated: the prompt holds one marker per system message, each
\* immediately before that message's header, and none anywhere else; it
\* starts with the marker only when the first message with a recognised
\* role is a system message.
C19_MarkerPerSystemMessage ==
    fmt_result # None =>
        /\ Count(BOT, fmt_result) = SystemCount(fmt_messages)
        /\ \A i \in 1..Len(fmt_result) :
              fmt_result[i] = BOT => BeforeSystemHeader(fmt_result, i)
        /\ fmt_result[1] = BOT <=> FirstRecognizedIsSystem(fmt_messages)

\* C19 as amended: the template puts one marker per system message, and
\* the only other markers are those the contents of the rendered messages
\* hold, which are copied as they are; when no such content holds the
\* marker, every marker stands immediately before a system header and
\* their number is the number of system messages; the prompt starts with
\* the marker exactly when the first message with a recognised role is a
\* system message.
C19_MarkerPerSystemMessageAndContent ==
    fmt_result # None =>
        /\ Count(BOT, fmt_result) =
              SystemCount(fmt_messages) + ContentMarkers(fmt_messages)
        /\ ContentMarkers(fmt_messages) = 0 =>
              /\ Count(BOT, fmt_result) = SystemCount(fmt_messages)
              /\ \A i \in 1..Len(fmt_result) :
                    fmt_result[i] = BOT => BeforeSystemHeader(fmt_result, i)
        /\ fmt_result[1] = BOT <=> FirstRecognizedIsSystem(fmt_messages)

\* a system message after a user message whose content is the marker: two
\* markers, one from the template, and the prompt does not start with one
C19_Witness ==
    /\ fmt_result # None
    /\ Len(fmt_messages) = 2
    /\ fmt_messages[1].role = "user"
    /\ fmt_messages[1].content = <<BOT>>
    /\ fmt_messages[2].role = "system"
    /\ Count(BOT, fmt_result) = 2
    /\ fmt_result[1] # BOT

====
